---------------------------- MODULE Spec2Model ----------------------------
(***************************************************************************)
(* Document OCR Manager: the ingestion batch of main.py (page_upload), the *)
(* SQLite store of core/db.py (documents, images, documents_fts), the      *)
(* filename sanitiser of core/storage.py and the rule-based classifier of  *)
(* core/classifier.py.                                                     *)
(*                                                                         *)
(* Text is modelled at character level: a text is a sequence of            *)
(* characters, a character is a one-character string, and a non-ASCII      *)
(* letter is written by its code point ("u0111" is U+0111).  SQL NULL and  *)
(* a key missing from a payload dict are the one-element sequences NULL    *)
(* and Absent, which are no texts.                                         *)
(***************************************************************************)
EXTENDS Integers, Sequences, FiniteSets, TLC

VARIABLES
  documents,      \* table documents: id -> row (id is the PRIMARY KEY)
  images,         \* table images, in rowid order (id is AUTOINCREMENT)
  documents_fts,  \* virtual table documents_fts, in rowid order
  fts_ok,         \* whether init_db could create documents_fts (FTS5 built in)
  clock,          \* the wall clock read by now_iso(), in seconds
  pc,             \* position of the running page_upload call
  doc_id, created_at, title, run_now, files,       \* page_upload locals
  saved_images, ocr_i, combined_text, doc_type,    \* page_upload locals
  word_path, excel_path,                           \* page_upload locals
  ocr_failed,     \* history: indexes of the images whose run_easyocr raised
  export_raised,  \* history: whether export_to_word / export_to_excel raised
  write_failed,   \* history: index of the file whose write_bytes raised, or 0
  last            \* the last direct call of the store's API and its outcome

storeVars == <<documents, images, documents_fts, fts_ok>>
batchVars == <<pc, doc_id, created_at, title, run_now, files, saved_images,
               ocr_i, combined_text, doc_type, word_path, excel_path,
               ocr_failed, export_raised, write_failed>>
vars == <<storeVars, batchVars, clock, last>>

-----------------------------------------------------------------------------
(* Bounds of the model. *)

MaxFiles == 2     \* files uploaded in one batch
MaxTime == 2      \* the clock runs from 1 to MaxTime
MaxLimit == 2     \* search_documents is called with limit 1..MaxLimit

-----------------------------------------------------------------------------
(* Characters and texts. *)

NULL == <<"NULL">>
Absent == <<"ABSENT">>

UpperLetters ==
  <<"A","B","C","D","E","F","G","H","I","J","K","L","M",
    "N","O","P","Q","R","S","T","U","V","W","X","Y","Z","u0110">>
LowerLetters ==
  <<"a","b","c","d","e","f","g","h","i","j","k","l","m",
    "n","o","p","q","r","s","t","u","v","w","x","y","z","u0111">>
Digits == {"0","1","2","3","4","5","6","7","8","9"}
Whitespace == {" ", "\n", "\t"}

Range(s) == {s[i] : i \in 1..Len(s)}

UpperSet == Range(UpperLetters)
AsciiUpperSet == {UpperLetters[i] : i \in 1..26}
AsciiAlnumSet == Digits \cup {UpperLetters[i] : i \in 1..26}
                        \cup {LowerLetters[i] : i \in 1..26}

LowerMap ==
  [c \in UpperSet |->
     LowerLetters[CHOOSE i \in 1..Len(UpperLetters) : UpperLetters[i] = c]]

\* str.lower(), one character
LowerChar(c) == IF c \in UpperSet THEN LowerMap[c] ELSE c

\* str.lower()
Lower(s) == [i \in 1..Len(s) |-> LowerChar(s[i])]

\* the characters of the model that are neither letters nor digits
Punctuation == {".", ",", ":", "-", "_", "/", "\\", "$"}

\* a character the unicode61 tokenizer keeps in a token: a letter or a digit
\* (every code-point character of the model is a letter)
IsTokenChar(c) == c \notin (Whitespace \cup Punctuation)

\* s in t, Python's substring test
Contains(t, s) ==
  \E off \in 0..(Len(t) - Len(s)) : \A k \in 1..Len(s) : t[off + k] = s[k]

\* str.strip()
Strip(s) ==
  LET ix == {i \in 1..Len(s) : s[i] \notin Whitespace}
  IN IF ix = {} THEN <<>>
     ELSE SubSeq(s, CHOOSE i \in ix : \A j \in ix : i <= j,
                    CHOOSE i \in ix : \A j \in ix : i >= j)

\* a character class of a regular expression: the characters of set, or
\* (negated, [^...]) every character outside it
InClass(c, set, negated) == (c \in set) # negated

\* re.sub(r"<class>+", rep, s): every maximal run of characters of the class
\* becomes one rep
SubRuns(s, set, negated, rep) ==
  LET keep == SelectSeq([i \in 1..Len(s) |-> i],
                        LAMBDA i : \/ ~InClass(s[i], set, negated)
                                   \/ i = 1
                                   \/ ~InClass(s[i - 1], set, negated))
  IN [k \in 1..Len(keep) |->
        IF InClass(s[keep[k]], set, negated) THEN rep ELSE s[keep[k]]]

\* the maximal runs of characters of a class, in order
Runs(s, set, negated) ==
  LET starts == SelectSeq([i \in 1..Len(s) |-> i],
                          LAMBDA i : /\ InClass(s[i], set, negated)
                                     /\ (i = 1 \/ ~InClass(s[i - 1], set, negated)))
      EndOf(i) == CHOOSE j \in i..Len(s) :
                    /\ \A k \in i..j : InClass(s[k], set, negated)
                    /\ (j = Len(s) \/ ~InClass(s[j + 1], set, negated))
  IN [n \in 1..Len(starts) |-> SubSeq(s, starts[n], EndOf(starts[n]))]

-----------------------------------------------------------------------------
(* core/storage.py *)

MaxNameLen == 180

\* [a-zA-Z0-9._-]
SafeNameChars == AsciiAlnumSet \cup {".", "_", "-"}

safe_filename(name) ==
  LET stripped == Strip(name)
      noSep == [i \in 1..Len(stripped) |->
                  IF stripped[i] \in {"\\", "/"} THEN "_" ELSE stripped[i]]
      subbed == SubRuns(noSep, SafeNameChars, TRUE, "_")
  IN IF Len(subbed) > MaxNameLen THEN SubSeq(subbed, 1, MaxNameLen) ELSE subbed

\* Path.__truediv__ and str(): joining "" or "." gives the directory itself
PathJoin(dir, fn) ==
  IF fn \in {<<>>, <<".">>} THEN dir ELSE dir \o <<"/">> \o fn

UPLOADS_DIR == <<"u","p","l","o","a","d","s">>
EXPORTS_DIR == <<"e","x","p","o","r","t","s">>

doc_upload_dir(id) == PathJoin(UPLOADS_DIR, id)
doc_export_dir(id) == PathJoin(EXPORTS_DIR, id)

-----------------------------------------------------------------------------
(* core/classifier.py *)

normalize_text(s) ==
  LET t == IF s = NULL THEN <<>> ELSE Lower(s)
  IN Strip(SubRuns(t, Whitespace, FALSE, " "))

gov_keywords ==
  << <<"c","u1ED9","n","g"," ","h","u00F2","a"," ","x","u00E3"," ","h","u1ED9","i"," ","c","h","u1EE7"," ","n","g","h","u0129","a"," ","v","i","u1EC7","t"," ","n","a","m">>,
     <<"u0111","u1ED9","c"," ","l","u1EAD","p"," ","-"," ","t","u1EF1"," ","d","o"," ","-"," ","h","u1EA1","n","h"," ","p","h","u00FA","c">>,
     <<"c","u00F4","n","g"," ","u0111","i","u1EC7","n">>,
     <<"k","u00ED","n","h"," ","g","u1EED","i">>,
     <<"s","u1ED1",":">>,
     <<"k","h","u1EA9","n">>,
     <<"h","u1ECF","a"," ","t","u1ED1","c">>,
     <<"b","u1ED9"," ">>,
     <<"u1EE7","y"," ","b","a","n"," ","n","h","u00E2","n"," ","d","u00E2","n">>,
     <<"t","h","u1EE7"," ","t","u01B0","u1EDB","n","g">>,
     <<"c","h","u00ED","n","h"," ","p","h","u1EE7">> >>

invoice_keywords ==
  << <<"i","n","v","o","i","c","e">>,
     <<"r","e","c","e","i","p","t">>,
     <<"v","a","t">>,
     <<"t","a","x">>,
     <<"s","u","b","t","o","t","a","l">>,
     <<"t","o","t","a","l">>,
     <<"a","m","o","u","n","t">>,
     <<"c","a","s","h","i","e","r">>,
     <<"c","h","a","n","g","e">>,
     <<"p","a","i","d">>,
     <<"p","a","y","m","e","n","t">>,
     <<"h","u00F3","a"," ","u0111","u01A1","n">>,
     <<"h","o","u00E1"," ","u0111","u01A1","n">>,
     <<"m","u00E3"," ","s","u1ED1"," ","t","h","u","u1EBF">>,
     <<"t","u1ED5","n","g"," ","c","u1ED9","n","g">>,
     <<"t","h","u00E0","n","h"," ","t","i","u1EC1","n">>,
     <<"t","i","u1EC1","n"," ","m","u1EB7","t">>,
     <<"s","u1ED1"," ","h","u00F3","a"," ","u0111","u01A1","n">>,
     <<"s","u1ED1"," ","h","o","u00E1"," ","u0111","u01A1","n">>,
     <<"n","g","u00E0","y"," ","b","u00E1","n">>,
     <<"u0111","u01A1","n"," ","g","i","u00E1">>,
     <<"s","u1ED1"," ","l","u01B0","u1EE3","n","g">> >>

currency_markers == { <<"v","n","d">>, <<"u0111">>, <<"u","s","d">>, <<"$">> }

\* sum(1 for k in keywords if k in t)
Hits(keywords, t) ==
  Cardinality({i \in 1..Len(keywords) : Contains(t, keywords[i])})

\* re.search(r"(\d{1,3}([.,]\d{3})+|\d+)\s*(vnd|d-stroke|usd|\$)", t): the number
\* ends in a digit at position i (either alternative), whitespace runs to
\* position j - 1, and a currency marker starts at position j
money_like(t) ==
  \E i \in 1..Len(t) : \E j \in (i + 1)..Len(t) : \E m \in currency_markers :
    /\ t[i] \in Digits
    /\ \A k \in (i + 1)..(j - 1) : t[k] \in Whitespace
    /\ j + Len(m) - 1 <= Len(t)
    /\ SubSeq(t, j, j + Len(m) - 1) = m

GovernmentTelegram == <<"G","o","v","e","r","n","m","e","n","t"," ","T","e","l","e","g","r","a","m">>
Invoice == <<"I","n","v","o","i","c","e">>
Normal == <<"N","o","r","m","a","l">>

classify_document(ocr_text) ==
  LET t == normalize_text(ocr_text)
      gov_hits == Hits(gov_keywords, t)
      inv_hits == Hits(invoice_keywords, t)
  IN IF gov_hits >= 2 THEN GovernmentTelegram
     ELSE IF inv_hits >= 2 \/ (inv_hits >= 1 /\ money_like(t)) THEN Invoice
     ELSE Normal

-----------------------------------------------------------------------------
(* core/db.py: the store.  A payload is a record over the seven keys of a  *)
(* Document, a key the dict does not hold being Absent.                    *)

DocKeys == {"id", "title", "created_at", "doc_type", "ocr_text",
            "word_path", "excel_path"}

\* init_db on a fresh database: both tables empty, the index empty
EmptyDocuments == [id \in {} |-> NULL]

\* doc.get(key): None for a missing key
Get(doc, key) == IF doc[key] = Absent THEN NULL ELSE doc[key]

\* doc.get(key, ""): the empty string for a missing key
GetOrEmpty(doc, key) == IF doc[key] = Absent THEN <<>> ELSE doc[key]

\* the parameters of INSERT INTO documents ... ON CONFLICT(id) DO UPDATE SET:
\* every column of the row is the payload's, for a new and for an existing id
DocumentRow(doc) ==
  [id |-> doc.id,
   title |-> Get(doc, "title"),
   created_at |-> doc.created_at,
   doc_type |-> Get(doc, "doc_type"),
   ocr_text |-> Get(doc, "ocr_text"),
   word_path |-> Get(doc, "word_path"),
   excel_path |-> Get(doc, "excel_path")]

\* the parameters of INSERT INTO documents_fts
FtsEntry(doc) ==
  [document_id |-> doc.id,
   title |-> GetOrEmpty(doc, "title"),
   doc_type |-> GetOrEmpty(doc, "doc_type"),
   ocr_text |-> GetOrEmpty(doc, "ocr_text")]

\* DELETE FROM documents_fts WHERE document_id = ?
FtsDelete(fts, id) == SelectSeq(fts, LAMBDA e : e.document_id # id)

\* the try block of upsert_document: without the table the DELETE raises
\* sqlite3.OperationalError and the index is left as it is
FtsSync(doc) ==
  IF fts_ok
    THEN [fts |-> Append(FtsDelete(documents_fts, doc.id), FtsEntry(doc)),
          raised |-> FALSE]
    ELSE [fts |-> documents_fts, raised |-> TRUE]

\* faulty variant: ON CONFLICT leaves created_at out of the SET list
UpsertedDocuments_KeepCreatedAt(doc) ==
  [id \in DOMAIN documents \cup {doc.id} |->
     IF id # doc.id THEN documents[id]
     ELSE IF id \in DOMAIN documents
       THEN [DocumentRow(doc) EXCEPT !.created_at = documents[id].created_at]
       ELSE DocumentRow(doc)]

\* the row written for doc.id: the ON CONFLICT clause sets every column
UpsertedDocuments(doc) ==
  [id \in DOMAIN documents \cup {doc.id} |->
     IF id = doc.id THEN DocumentRow(doc) ELSE documents[id]]

\* faulty variant: no except clause: the index error reaches the caller
UpsertOutcome_Propagates(sync) == IF sync.raised THEN "raised" ELSE "returned"

\* except sqlite3.OperationalError: pass -- the index error is swallowed
UpsertOutcome(sync) == "returned"

\* upsert_document(conn, doc): the tables after the call, and how it ended
upsert_document(doc) ==
  LET sync == FtsSync(doc)
  IN [documents |-> UpsertedDocuments(doc),
      documents_fts |-> sync.fts,
      outcome |-> UpsertOutcome(sync)]

\* insert_image(conn, document_id, filename, stored_path, ocr_text): the
\* foreign key is declared but SQLite does not enforce it (PRAGMA foreign_keys
\* is off by default and never set), so any document_id is accepted
insert_image(document_id, filename, stored_path, ocr_text) ==
  Append(images, [id |-> Len(images) + 1,
                  document_id |-> document_id,
                  filename |-> filename,
                  stored_path |-> stored_path,
                  ocr_text |-> ocr_text])

\* update_image_ocr(conn, document_id, stored_path, ocr_text)
update_image_ocr(document_id, stored_path, ocr_text) ==
  [k \in 1..Len(images) |->
     IF images[k].document_id = document_id /\ images[k].stored_path = stored_path
       THEN [images[k] EXCEPT !.ocr_text = ocr_text]
       ELSE images[k]]

\* get_images_by_doc(conn, doc_id): ORDER BY id ASC is the rowid order
get_images_by_doc(id) == SelectSeq(images, LAMBDA r : r.document_id = id)

-----------------------------------------------------------------------------
(* core/db.py: search_documents.  Queries are over ASCII letters, digits,  *)
(* blanks and "-"; FTS5's operators (AND, OR, NOT, NEAR, quotes, "*", "^", *)
(* ":") and LIKE's "%" are outside the query alphabet of the model.        *)

All == <<"A","l","l">>

\* the unicode61 tokenizer: runs of letters and digits, case folded
Tokenize(s) ==
  IF s = NULL THEN <<>>
  ELSE LET runs == Runs(s, Whitespace \cup Punctuation, TRUE)
       IN [n \in 1..Len(runs) |-> Lower(runs[n])]

\* the FTS5 query is a list of barewords separated by blanks
Barewords(q) == Runs(q, Whitespace, TRUE)

\* FTS5 rejects an empty query and a bareword holding a character that is
\* neither a letter, a digit nor "_": sqlite3.OperationalError
FtsSyntaxError(q) ==
  \/ Barewords(q) = <<>>
  \/ \E n \in 1..Len(Barewords(q)) : \E c \in Range(Barewords(q)[n]) :
       ~(IsTokenChar(c) \/ c = "_")

\* documents_fts MATCH ?: every bareword, tokenized to a phrase, occurs in
\* some column of the entry
FtsMatch(e, q) ==
  \A n \in 1..Len(Barewords(q)) :
    LET phrase == Tokenize(Barewords(q)[n])
    IN /\ phrase # <<>>
       /\ \E col \in {e.document_id, e.title, e.doc_type, e.ocr_text} :
            Contains(Tokenize(col), phrase)

\* ASCII case folding of LIKE
LikeChar(c) == IF c \in AsciiUpperSet THEN LowerMap[c] ELSE c

\* value LIKE '%q%': NULL never matches; "_" in q matches any one character
Like(value, q) ==
  /\ value # NULL
  /\ \E off \in 0..(Len(value) - Len(q)) :
       \A k \in 1..Len(q) :
         q[k] = "_" \/ LikeChar(q[k]) = LikeChar(value[off + k])

\* if doc_type and doc_type != "All"
HasTypeFilter(dt) == dt # NULL /\ dt # <<>> /\ dt # All

TypeFilter(id, dt) == HasTypeFilter(dt) => documents[id].doc_type = dt

\* FROM documents_fts f JOIN documents d ON d.id = f.document_id
\* WHERE documents_fts MATCH ? [AND d.doc_type = ?]: the joined rows, one per
\* matching index entry, each named by the entry's position
IndexHits(q, dt) ==
  {n \in 1..Len(documents_fts) :
     /\ documents_fts[n].document_id \in DOMAIN documents
     /\ FtsMatch(documents_fts[n], q)
     /\ TypeFilter(documents_fts[n].document_id, dt)}

\* faulty variant: the fallback scans id and title only
FallbackMatches_NoText(q, dt) ==
  {id \in DOMAIN documents :
     /\ TypeFilter(id, dt)
     /\ \/ Like(id, q)
        \/ Like(documents[id].title, q)}

\* FROM documents WHERE [doc_type = ? AND]
\*   (id LIKE ? OR title LIKE ? OR ocr_text LIKE ?)
FallbackMatches(q, dt) ==
  {id \in DOMAIN documents :
     /\ TypeFilter(id, dt)
     /\ \/ Like(id, q)
        \/ Like(documents[id].title, q)
        \/ Like(documents[id].ocr_text, q)}

\* ORDER BY created_at DESC LIMIT ?: the first rows of any order of the hits
\* that is descending in created_at (SQLite leaves the order of ties open)
OrderLimit(hits, idOf, limit) ==
  LET n == IF Cardinality(hits) < limit THEN Cardinality(hits) ELSE limit
      Key(h) == documents[idOf[h]].created_at
  IN {[k \in 1..n |-> idOf[s[k]]] :
        s \in {t \in [1..n -> hits] :
                 /\ \A i, j \in 1..n : i < j =>
                      t[i] # t[j] /\ Key(t[i]) >= Key(t[j])
                 /\ \A h \in hits \ Range(t) : \A i \in 1..n :
                      Key(t[i]) >= Key(h)}}

\* the try block of search_documents: the results the index path can return
IndexPath(q, dt, limit) ==
  OrderLimit(IndexHits(q, dt),
             [n \in 1..Len(documents_fts) |-> documents_fts[n].document_id],
             limit)

\* the LIKE fallback of search_documents: the results it can return
FallbackPath(q, dt, limit) ==
  OrderLimit(FallbackMatches(q, dt), [id \in DOMAIN documents |-> id], limit)

\* whether the try block raises sqlite3.OperationalError: no such table, or
\* a query FTS5 cannot parse
IndexRaises(q) == ~fts_ok \/ FtsSyntaxError(q)

\* search_documents(conn, query, doc_type, limit): the ways the call can end.
\* An OperationalError of the try block is swallowed and the LIKE fallback
\* answers instead
search_documents(query, dt, limit) ==
  LET q == Strip(query)
  IN IF IndexRaises(q)
       THEN {[outcome |-> "returned", path |-> "fallback", rows |-> r] :
               r \in FallbackPath(q, dt, limit)}
       ELSE {[outcome |-> "returned", path |-> "index", rows |-> r] :
               r \in IndexPath(q, dt, limit)}

-----------------------------------------------------------------------------
(* The values the model draws its inputs from. *)

\* new_doc_id(): uuid4().hex[:12], here two hexadecimal characters
DocIds == { <<"d","1">>, <<"d","2">> }

Times == 1..MaxTime
Limits == 1..MaxLimit

\* The title, doc_type and ocr_text of the dicts upsert_document is called
\* with: every pair of values of two keys occurs in some payload
PayloadShapes ==
  { [title |-> <<"b","-","c">>, doc_type |-> Normal,  ocr_text |-> <<"a">>],
    [title |-> <<"b","-","c">>, doc_type |-> Invoice, ocr_text |-> <<"a","b">>],
    [title |-> Absent,  doc_type |-> Invoice, ocr_text |-> <<"a">>],
    [title |-> Absent,  doc_type |-> Normal,  ocr_text |-> <<"a","b">>] }

Payloads ==
  {[id |-> i, title |-> s.title, created_at |-> c, doc_type |-> s.doc_type,
    ocr_text |-> s.ocr_text, word_path |-> Absent, excel_path |-> Absent] :
     i \in DocIds, c \in Times, s \in PayloadShapes}

Queries == { <<"a">>, <<" ","b">>, <<"b","-","c">> }
TypeFilters == { All, Invoice }

NoCall ==
  [op |-> "none", doc |-> NULL, query |-> NULL, doc_type |-> NULL, limit |-> 0,
   outcome |-> "none", path |-> "none", rows |-> <<>>, old_created_at |-> 0]

-----------------------------------------------------------------------------
(* main.py: page_upload, one step for each effect on the store or the disk, *)
(* and the reset of page_settings.  Every call of the store commits, so the *)
(* state between two steps is a state of the database.                      *)

FileNames == { <<"x">>, <<"v","a","t">>, <<"v","a","t"," ">>, <<".",".">> }
Titles == { <<>>, <<"t">> }
\* what run_easyocr returns: the stripped text of the detections, "" for none
OcrTexts == { <<>>, <<"t","a","x">> }
\* run_easyocr raising instead (an unreadable image, an error of the reader)
Raised == <<"RAISED">>

Uploads == UNION {[1..n -> FileNames] : n \in 1..MaxFiles}

\* the ids new_doc_id() can return in a run of the application
BatchIds == { <<"d","1">> }

\* ids in use: uuid4 is taken never to repeat an id the store still holds
UsedIds == DOMAIN documents \cup {images[k].document_id : k \in 1..Len(images)}

\* new_doc_id()
new_doc_id == BatchIds \ UsedIds

\* title or f"Document {doc_id}"
TitleOrDefault(t, id) ==
  IF t # <<>> THEN t ELSE <<"D","o","c","u","m","e","n","t"," ">> \o id

\* line 100: the labelled segment of one image
Segment(filename, text) ==
  <<"\n","\n","-","-","-"," ">> \o filename \o <<" ","-","-","-","\n">> \o text

WordPath(id) == PathJoin(doc_export_dir(id), id \o <<".","d","o","c","x">>)
ExcelPath(id) == PathJoin(doc_export_dir(id), id \o <<".","x","l","s","x">>)

\* upload_dir / fn names a directory when fn is "", "." or "..": write_bytes
\* then always raises; any other write can fail with an OSError
WriteOutcomes(fn) ==
  IF fn \in {<<>>, <<".">>, <<".",".">>} THEN {"raises"} ELSE {"written", "raises"}

-----------------------------------------------------------------------------
(* The state after main() has opened the connection and run init_db, with  *)
(* no upload submitted: the database file is new, or it holds the rows an   *)
(* earlier run of the application left in it.                              *)

\* the rows of one earlier batch: one image named "x", recognized as "tax",
\* classified, exports written
EarlierId == <<"d","2">>
EarlierPayload ==
  [id |-> EarlierId,
   title |-> <<"o","l","d">>,
   created_at |-> 1,
   doc_type |-> classify_document(Segment(<<"x">>, <<"t","a","x">>)),
   ocr_text |-> Segment(<<"x">>, <<"t","a","x">>),
   word_path |-> WordPath(EarlierId),
   excel_path |-> ExcelPath(EarlierId)]
EarlierImages ==
  << [id |-> 1,
      document_id |-> EarlierId,
      filename |-> <<"x">>,
      stored_path |-> PathJoin(doc_upload_dir(EarlierId), <<"x">>),
      ocr_text |-> <<"t","a","x">>] >>

InitStore ==
  \/ /\ documents = EmptyDocuments
     /\ images = <<>>
     /\ documents_fts = <<>>
  \/ /\ documents = [id \in {EarlierId} |-> DocumentRow(EarlierPayload)]
     /\ images = EarlierImages
     /\ documents_fts = IF fts_ok THEN <<FtsEntry(EarlierPayload)>> ELSE <<>>

\* no page_upload call has run in this run of the script
NoBatch ==
  [pc |-> "idle", doc_id |-> NULL, created_at |-> 0, title |-> <<>>,
   run_now |-> FALSE, files |-> <<>>, saved_images |-> <<>>, ocr_i |-> 0,
   combined_text |-> <<>>, doc_type |-> NULL, word_path |-> NULL,
   excel_path |-> NULL, ocr_failed |-> {}, export_raised |-> FALSE,
   write_failed |-> 0]

Init ==
  /\ fts_ok \in BOOLEAN
  /\ InitStore
  /\ clock = 1
  /\ pc = NoBatch.pc
  /\ doc_id = NoBatch.doc_id
  /\ created_at = NoBatch.created_at
  /\ title = NoBatch.title
  /\ run_now = NoBatch.run_now
  /\ files = NoBatch.files
  /\ saved_images = NoBatch.saved_images
  /\ ocr_i = NoBatch.ocr_i
  /\ combined_text = NoBatch.combined_text
  /\ doc_type = NoBatch.doc_type
  /\ word_path = NoBatch.word_path
  /\ excel_path = NoBatch.excel_path
  /\ ocr_failed = NoBatch.ocr_failed
  /\ export_raised = NoBatch.export_raised
  /\ write_failed = NoBatch.write_failed
  /\ last = NoCall

-----------------------------------------------------------------------------
(* The steps of page_upload. *)

BatchOver == pc \in {"idle", "done", "aborted"}

\* now_iso(): the clock never runs backwards
now_iso == clock..MaxTime

\* lines 60-65: the form submitted without a file
SubmitNoFiles ==
  /\ BatchOver
  /\ UNCHANGED vars

\* lines 60-73: the form submitted with files
Submit(t, now, fs) ==
  /\ BatchOver
  /\ \E id \in new_doc_id : doc_id' = id
  /\ \E now_ \in now_iso : created_at' = now_ /\ clock' = now_
  /\ title' = t
  /\ run_now' = now
  /\ files' = fs
  /\ saved_images' = <<>>
  /\ ocr_i' = 0
  /\ combined_text' = <<>>
  /\ doc_type' = NULL
  /\ word_path' = NULL
  /\ excel_path' = NULL
  /\ ocr_failed' = {}
  /\ export_raised' = FALSE
  /\ write_failed' = 0
  /\ pc' = "save"
  /\ UNCHANGED <<storeVars, last>>

\* where page_upload goes when the save loop ends
AfterSave == IF run_now THEN "ocr" ELSE "classify"

\* faulty variant: the save loop is left after its first iteration
SaveDone_First(k) == TRUE

\* for f in files: the loop ends with the last file
SaveDone(k) == k = Len(files)

\* lines 74-79, one iteration: an exception of write_bytes is not caught and
\* ends page_upload
SaveImage ==
  /\ pc = "save"
  /\ LET k == Len(saved_images) + 1
         fn == safe_filename(files[k])
         out_path == PathJoin(doc_upload_dir(doc_id), fn)
     IN \E w \in WriteOutcomes(fn) :
          IF w = "raises"
            THEN /\ pc' = "aborted"
                 /\ write_failed' = k
                 /\ UNCHANGED <<images, saved_images, ocr_i>>
            ELSE /\ images' = insert_image(doc_id, fn, out_path, NULL)
                 /\ saved_images' = Append(saved_images,
                                           [filename |-> fn,
                                            stored_path |-> out_path,
                                            ocr_text |-> <<>>])
                 /\ pc' = IF SaveDone(k) THEN AfterSave ELSE "save"
                 /\ ocr_i' = IF SaveDone(k) /\ run_now THEN 1 ELSE 0
                 /\ UNCHANGED write_failed
  /\ UNCHANGED <<documents, documents_fts, fts_ok, clock, last, doc_id,
                 created_at, title, run_now, files, combined_text, doc_type,
                 word_path, excel_path, ocr_failed, export_raised>>

\* lines 89-94: the text of one image; an exception of run_easyocr is caught
\* and the text is ""
RecognizedText(result) == IF result = Raised THEN <<>> ELSE result

\* faulty variant: no try around run_easyocr: its exception ends page_upload
AfterOcr_Propagates(i, result) ==
  IF result = Raised THEN "aborted"
  ELSE IF i = Len(saved_images) THEN "classify" ELSE "ocr"

\* where page_upload goes after the OCR of image i: line 91 catches the
\* exception, so the loop goes on
AfterOcr(i, result) == IF i = Len(saved_images) THEN "classify" ELSE "ocr"

\* lines 88-102, one iteration
Recognize ==
  /\ pc = "ocr"
  /\ \E result \in OcrTexts \cup {Raised} :
       LET i == ocr_i
           img == saved_images[i]
           text == RecognizedText(result)
       IN /\ ocr_failed' = IF result = Raised THEN ocr_failed \cup {i}
                                                ELSE ocr_failed
          /\ saved_images' = [saved_images EXCEPT ![i].ocr_text = text]
          /\ images' = update_image_ocr(doc_id, img.stored_path, text)
          /\ combined_text' = IF text # <<>>
                                THEN combined_text \o Segment(img.filename, text)
                                ELSE combined_text
          /\ ocr_i' = i + 1
          /\ pc' = AfterOcr(i, result)
  /\ UNCHANGED <<documents, documents_fts, fts_ok, clock, last, doc_id,
                 created_at, title, run_now, files, doc_type, word_path,
                 excel_path, export_raised, write_failed>>

\* faulty variant: the text of the last image is classified, not the
\* combined text
Classify_LastImage ==
  /\ pc = "classify"
  /\ doc_type' = classify_document(saved_images[Len(saved_images)].ocr_text)
  /\ word_path' = WordPath(doc_id)
  /\ excel_path' = ExcelPath(doc_id)
  /\ pc' = "export"
  /\ UNCHANGED <<storeVars, clock, last, doc_id, created_at, title, run_now,
                 files, saved_images, ocr_i, combined_text, ocr_failed,
                 export_raised, write_failed>>

\* lines 108-112
Classify ==
  /\ pc = "classify"
  /\ doc_type' = classify_document(combined_text)
  /\ word_path' = WordPath(doc_id)
  /\ excel_path' = ExcelPath(doc_id)
  /\ pc' = "export"
  /\ UNCHANGED <<storeVars, clock, last, doc_id, created_at, title, run_now,
                 files, saved_images, ocr_i, combined_text, ocr_failed,
                 export_raised, write_failed>>

\* faulty variant: the except clause forgets to reset the path
PathAfterExportError_Kept(path) == path

\* lines 130-133: the paths after an exception of an exporter
PathAfterExportError(path) == NULL

\* faulty variant: no try around the exporters: their exception ends page_upload
AfterExport_Propagates(e) == IF e = "exported" THEN "upsert" ELSE "aborted"

\* line 130 catches every Exception of the exporters: the upsert follows
AfterExport(e) == "upsert"

\* lines 114-133: export_to_word, then export_to_excel; an exception of
\* either is caught and both paths become None
Export ==
  /\ pc = "export"
  /\ \E e \in {"exported", "word raises", "excel raises"} :
       /\ IF e = "exported"
            THEN UNCHANGED <<word_path, excel_path, export_raised>>
            ELSE /\ word_path' = PathAfterExportError(word_path)
                 /\ excel_path' = PathAfterExportError(excel_path)
                 /\ export_raised' = TRUE
       /\ pc' = AfterExport(e)
  /\ UNCHANGED <<storeVars, clock, last, doc_id, created_at, title, run_now,
                 files, saved_images, ocr_i, combined_text, doc_type,
                 ocr_failed, write_failed>>

\* lines 136-144: the payload of the batch
BatchPayload ==
  [id |-> doc_id,
   title |-> TitleOrDefault(title, doc_id),
   created_at |-> created_at,
   doc_type |-> doc_type,
   ocr_text |-> combined_text,
   word_path |-> word_path,
   excel_path |-> excel_path]

\* lines 136-144
Upsert ==
  /\ pc = "upsert"
  /\ LET r == upsert_document(BatchPayload)
     IN /\ documents' = r.documents
        /\ documents_fts' = r.documents_fts
  /\ pc' = "done"
  /\ UNCHANGED <<images, fts_ok, clock, last, doc_id, created_at, title,
                 run_now, files, saved_images, ocr_i, combined_text, doc_type,
                 word_path, excel_path, ocr_failed, export_raised, write_failed>>

\* page_settings, "Reset database (keep files)": the three tables are dropped
\* and init_db creates them again.  The page runs in a new run of the script,
\* in which no page_upload call has run
ResetDatabase ==
  /\ BatchOver
  /\ documents' = EmptyDocuments
  /\ images' = <<>>
  /\ documents_fts' = <<>>
  /\ pc' = NoBatch.pc
  /\ doc_id' = NoBatch.doc_id
  /\ created_at' = NoBatch.created_at
  /\ title' = NoBatch.title
  /\ run_now' = NoBatch.run_now
  /\ files' = NoBatch.files
  /\ saved_images' = NoBatch.saved_images
  /\ ocr_i' = NoBatch.ocr_i
  /\ combined_text' = NoBatch.combined_text
  /\ doc_type' = NoBatch.doc_type
  /\ word_path' = NoBatch.word_path
  /\ excel_path' = NoBatch.excel_path
  /\ ocr_failed' = NoBatch.ocr_failed
  /\ export_raised' = NoBatch.export_raised
  /\ write_failed' = NoBatch.write_failed
  /\ UNCHANGED <<fts_ok, clock, last>>

Next ==
  \/ SubmitNoFiles
  \/ \E t \in Titles, now \in BOOLEAN, fs \in Uploads : Submit(t, now, fs)
  \/ SaveImage
  \/ Recognize
  \/ Classify
  \/ Export
  \/ Upsert
  \/ ResetDatabase

Spec == Init /\ [][Next]_vars

-----------------------------------------------------------------------------
(* The store's API called directly, with any payload and any query. *)

CallUpsertDocument(doc) ==
  LET r == upsert_document(doc)
  IN /\ documents' = r.documents
     /\ documents_fts' = r.documents_fts
     /\ last' = [NoCall EXCEPT !.op = "upsert_document", !.doc = doc,
                               !.outcome = r.outcome,
                               !.old_created_at =
                                  IF doc.id \in DOMAIN documents
                                    THEN documents[doc.id].created_at ELSE 0]
     /\ UNCHANGED <<images, fts_ok, clock, batchVars>>

CallSearchDocuments(query, dt, limit) ==
  \E r \in search_documents(query, dt, limit) :
    /\ last' = [NoCall EXCEPT !.op = "search_documents", !.query = query,
                              !.doc_type = dt, !.limit = limit,
                              !.outcome = r.outcome, !.path = r.path,
                              !.rows = r.rows]
    /\ UNCHANGED <<storeVars, clock, batchVars>>

NextStore ==
  \/ \E doc \in Payloads : CallUpsertDocument(doc)
  \/ \E q \in Queries, dt \in TypeFilters, limit \in Limits :
       CallSearchDocuments(q, dt, limit)

SpecStore == Init /\ [][NextStore]_vars

-----------------------------------------------------------------------------
(* Claims about the store, checked under SpecStore. *)

EntriesOf(id) == {n \in 1..Len(documents_fts) : documents_fts[n].document_id = id}

\* C6: with the index available, the index holds exactly one entry for each
\* id of the documents table and none for any other id, and the entry's
\* title, doc_type and ocr_text equal the row's.
C6_IndexMirrorsDocuments ==
  fts_ok =>
    \A id \in DocIds :
      IF id \in DOMAIN documents
        THEN /\ Cardinality(EntriesOf(id)) = 1
             /\ \A n \in EntriesOf(id) :
                  /\ documents_fts[n].title = documents[id].title
                  /\ documents_fts[n].doc_type = documents[id].doc_type
                  /\ documents_fts[n].ocr_text = documents[id].ocr_text
        ELSE EntriesOf(id) = {}

\* the value a key of the payload leaves in the row: NULL for a missing key
Stored(doc, key) == IF doc[key] = Absent THEN NULL ELSE doc[key]

\* C7: with the index unavailable, upsert_document returns normally with the
\* payload's row in the documents table, and search_documents returns
\* normally with a result of the substring scan.
C7_IndexUnavailableNeverSurfaces ==
  ~fts_ok =>
    /\ last.op = "upsert_document" =>
         /\ last.outcome = "returned"
         /\ last.doc.id \in DOMAIN documents
         /\ documents[last.doc.id].id = last.doc.id
         /\ documents[last.doc.id].created_at = last.doc.created_at
         /\ \A key \in {"title", "doc_type", "ocr_text", "word_path", "excel_path"} :
              documents[last.doc.id][key] = Stored(last.doc, key)
    /\ last.op = "search_documents" =>
         /\ last.outcome = "returned"
         /\ last.rows \in FallbackPath(Strip(last.query), last.doc_type, last.limit)

C7_Witness ==
  /\ ~fts_ok
  /\ last.op = "search_documents"
  /\ last.rows # <<>>
  /\ Cardinality(DOMAIN documents) = 2

\* whether the stored text literally contains q
LiteralIn(text, q) == text # NULL /\ Contains(text, q)

\* C8 as claimed: every document the index path returns whose ocr_text
\* literally contains the query is returned by the fallback path for the same
\* query, doc_type filter and limit (under some order of created_at ties).
C8_IndexRowsReturnedByFallback ==
  (last.op = "search_documents" /\ last.path = "index") =>
    \A k \in 1..Len(last.rows) :
      LiteralIn(documents[last.rows[k]].ocr_text, last.query) =>
        \E r \in FallbackPath(Strip(last.query), last.doc_type, last.limit) :
          last.rows[k] \in Range(r)

\* C8 as amended: every document the index path returns whose ocr_text
\* literally contains the (stripped) query satisfies the fallback's WHERE
\* clause, and every fallback result holds it when the fallback matches at
\* most limit documents.
C8_IndexRowsMatchedByFallback ==
  (last.op = "search_documents" /\ last.path = "index") =>
    \A k \in 1..Len(last.rows) :
      LET q == Strip(last.query)
          matches == FallbackMatches(q, last.doc_type)
      IN LiteralIn(documents[last.rows[k]].ocr_text, q) =>
           /\ last.rows[k] \in matches
           /\ Cardinality(matches) <= last.limit =>
                \A r \in FallbackPath(q, last.doc_type, last.limit) :
                  last.rows[k] \in Range(r)

C8_Witness ==
  /\ last.op = "search_documents"
  /\ last.path = "index"
  /\ last.limit = 2
  /\ Len(last.rows) = 2
  /\ \A k \in 1..2 : LiteralIn(documents[last.rows[k]].ocr_text, Strip(last.query))
  /\ last.rows \in FallbackPath(Strip(last.query), last.doc_type, last.limit)

\* C9 as claimed: an upsert_document call for an existing id leaves the
\* created_at stored for it as it was.
C9_CreatedAtImmutable ==
  (last.op = "upsert_document" /\ last.old_created_at # 0) =>
    documents[last.doc.id].created_at = last.old_created_at

\* C9 as amended: an upsert_document call stores the payload's created_at,
\* for a new and for an existing id.
C9_CreatedAtFromPayload ==
  last.op = "upsert_document" =>
    documents[last.doc.id].created_at = last.doc.created_at

C9_Witness ==
  /\ last.op = "upsert_document"
  /\ last.old_created_at = 1
  /\ documents[last.doc.id].created_at = 2

-----------------------------------------------------------------------------
(* Claims about the ingestion batch, checked under Spec. *)

InBatch == pc \in {"save", "ocr", "classify", "export", "upsert"}

\* the rows of table images that belong to the running batch
BatchImages == get_images_by_doc(doc_id)

RowsKept ==
  /\ \A id \in DOMAIN documents :
       id \in DOMAIN documents' /\ documents'[id] = documents[id]
  /\ \A k \in 1..Len(images) : k <= Len(images') /\ images'[k] = images[k]

\* C2: an exception of an exporter is absorbed: the batch goes on to the
\* upsert and ends with the row of the batch id holding the batch's id,
\* title, created_at, doc_type and ocr_text and null export paths; the failing
\* export and the upsert after it keep every row that was in the store.
C2_ExportFailureAbsorbed ==
  /\ [](export_raised => pc \in {"upsert", "done"})
  /\ []((export_raised /\ pc = "done") =>
          /\ doc_id \in DOMAIN documents
          /\ documents[doc_id].id = doc_id
          /\ documents[doc_id].title = TitleOrDefault(title, doc_id)
          /\ documents[doc_id].created_at = created_at
          /\ documents[doc_id].doc_type = doc_type
          /\ documents[doc_id].ocr_text = combined_text
          /\ documents[doc_id].word_path = NULL
          /\ documents[doc_id].excel_path = NULL)
  /\ [][(export_raised' /\ pc \in {"export", "upsert"}) => RowsKept]_vars

C2_Witness ==
  /\ pc = "done"
  /\ export_raised
  /\ EarlierId \in DOMAIN documents
  /\ Len(images) = 3
  /\ documents[doc_id].word_path = NULL

\* C3: an exception of run_easyocr never ends the batch: the image's text is
\* empty (in saved_images and in its Image row), the loop goes on to every
\* later image, and the batch reaches the classification and the upsert.
C3_RecognitionFailureAbsorbed ==
  ocr_failed # {} =>
    /\ pc \in {"ocr", "classify", "export", "upsert", "done"}
    /\ \A k \in ocr_failed : saved_images[k].ocr_text = <<>>
    /\ ocr_failed = 1..Len(files) => combined_text = <<>>
    /\ pc = "ocr" => ocr_i \in 1..Len(files)
    /\ pc # "ocr" => ocr_i = Len(files) + 1
    /\ pc \in {"export", "upsert", "done"} =>
         doc_type = classify_document(combined_text)
    /\ pc = "done" =>
         /\ doc_id \in DOMAIN documents
         /\ documents[doc_id].ocr_text = combined_text

C3_Witness ==
  /\ pc = "done"
  /\ ocr_failed = {1}
  /\ Len(saved_images) = 2
  /\ saved_images[1].ocr_text = <<>>
  /\ saved_images[2].ocr_text = <<"t","a","x">>
  /\ documents[doc_id].ocr_text = combined_text

\* C4: when a recognizer call is made every uploaded file of the batch has
\* been written and has its Image row; and while files are still being
\* saved no recognizer call has been made and the rows' ocr_text is null.
C4_ImagesSavedBeforeRecognition ==
  /\ (pc = "ocr" \/ ocr_i >= 1) =>
       /\ Len(saved_images) = Len(files)
       /\ Len(BatchImages) = Len(files)
       /\ \A k \in 1..Len(files) :
            BatchImages[k].filename = safe_filename(files[k])
  /\ pc = "save" =>
       /\ ocr_i = 0
       /\ \A k \in 1..Len(BatchImages) : BatchImages[k].ocr_text = NULL

C4_Witness ==
  /\ pc = "ocr"
  /\ ocr_i = 1
  /\ Len(files) = 2
  /\ Len(BatchImages) = 2

\* C5: an exception of write_bytes is caught: the batch goes on and ends with
\* the Document row of the batch in the store.
C5_WriteFailureAbsorbed ==
  write_failed # 0 =>
    /\ pc # "aborted"
    /\ pc = "done" => doc_id \in DOMAIN documents

\* C10: every Image row's document_id is the id of a Document row.
C10_ImageHasDocument ==
  \A k \in 1..Len(images) : images[k].document_id \in DOMAIN documents

\* the rows of table images a step changes
ChangedImages == {k \in 1..Len(images) : images'[k] # images[k]}

\* C11: stored_path is unique per Image row, and every update_image_ocr call
\* of a batch (one iteration of the OCR loop) changes the ocr_text of at most
\* one Image row and leaves every other row as it was.
C11_UpdateChangesOneImage ==
  /\ [](\A j, k \in 1..Len(images) :
          images[j].stored_path = images[k].stored_path => j = k)
  /\ [][pc = "ocr" =>
          /\ Len(images') = Len(images)
          /\ Cardinality(ChangedImages) <= 1]_vars

\* C12: for every uploaded name, safe_filename(name) holds no "/" and no
\* "\", and is neither empty, "." nor "..": upload_dir / safe_filename(name)
\* names a file inside the upload directory of the batch.
C12_SafeFilenameNoTraversal ==
  \A k \in 1..Len(files) :
    LET fn == safe_filename(files[k])
    IN /\ Range(fn) \cap {"/", "\\"} = {}
       /\ fn \notin {<<>>, <<".">>, <<".", ".">>}
       /\ PathJoin(doc_upload_dir(doc_id), fn)
            = doc_upload_dir(doc_id) \o <<"/">> \o fn

\* the labelled segments of the Image rows with a non-empty text, in row order
RECURSIVE SegmentsOf(_)
SegmentsOf(rows) ==
  IF rows = <<>> THEN <<>>
  ELSE LET r == Head(rows)
       IN (IF r.ocr_text \in {NULL, <<>>} THEN <<>>
           ELSE Segment(r.filename, r.ocr_text)) \o SegmentsOf(Tail(rows))

\* C13: at the end of a batch run with recognition, the ocr_text of the
\* Document row is the labelled segments, in upload order, of exactly the
\* images of the batch whose Image row (in ascending id order) holds a
\* non-empty text, each segment carrying the text of its row.
C13_CombinedTextFromImageRows ==
  (pc = "done" /\ run_now) =>
    /\ Len(BatchImages) = Len(files)
    /\ documents[doc_id].ocr_text = SegmentsOf(BatchImages)

\* the recognized texts of a batch, in upload order
TextsOf(rows) == [k \in 1..Len(rows) |-> rows[k].ocr_text]

\* the filenames written into the separator lines of a batch
NamesOf(rows) == [k \in 1..Len(rows) |-> rows[k].filename]

\* the running batch is over and the earlier batch is still in the store, the
\* images of the two having the same sequence of recognized texts
SameTextsAsEarlier ==
  /\ pc = "done"
  /\ EarlierId \in DOMAIN documents
  /\ TextsOf(saved_images) = TextsOf(get_images_by_doc(EarlierId))

\* C14 as claimed: two batches whose images yield the same sequence of
\* recognized texts get the same doc_type, whatever the files are named.
C14_DocTypeIndependentOfNames ==
  SameTextsAsEarlier =>
    documents[doc_id].doc_type = documents[EarlierId].doc_type

\* C14 as amended: the doc_type of a batch is classify_document of its
\* combined text, separator lines included: it is a function of the
\* recognized texts and of the sanitized filenames of the images with a
\* non-empty text, so two batches with the same texts and the same sanitized
\* filenames get the same doc_type.
C14_DocTypeFromTextsAndNames ==
  /\ pc \in {"export", "upsert", "done"} =>
       doc_type = classify_document(SegmentsOf(saved_images))
  /\ pc = "done" =>
       documents[doc_id].doc_type = classify_document(SegmentsOf(saved_images))
  /\ (SameTextsAsEarlier
        /\ NamesOf(saved_images) = NamesOf(get_images_by_doc(EarlierId))) =>
       documents[doc_id].doc_type = documents[EarlierId].doc_type

C14_Witness ==
  /\ SameTextsAsEarlier
  /\ NamesOf(saved_images) = NamesOf(get_images_by_doc(EarlierId))
  /\ TextsOf(saved_images) = << <<"t","a","x">> >>
  /\ documents[doc_id].doc_type = Normal
  /\ documents[EarlierId].doc_type = Normal

=============================================================================
